---------------------------- MODULE Spec2Model ----------------------------
(***************************************************************************)
(* A model of src/src/agentic_system.py: the ReAct agent loop              *)
(* (ReActAgent.run), its action protocol (final-answer marker, action      *)
(* regular expression, quote stripping), tool dispatch and the bundled     *)
(* tools.                                                                  *)
(*                                                                         *)
(* Text.  A Python str is modelled as a sequence of atoms.  An atom is a   *)
(* TLA+ string standing for a fixed piece of text: one whitespace          *)
(* character (" ", "\n"), one double quote, one of the protocol markers    *)
(* ("Final Answer:", "Action:", "Action Input:", "Observation:", ...), or  *)
(* a word (a run of text that holds no marker, and neither starts nor ends *)
(* with whitespace or a quote).  Substring search, split, strip and the    *)
(* regular expression of the source are computed on atoms the way Python   *)
(* computes them on characters.                                            *)
(***************************************************************************)
EXTENDS Integers, Sequences, FiniteSets, TLC

\* ------------------------------------------------------------------ atoms

SP          == " "
NL          == "\n"
QUOTE       == "\""
MarkFinal == "Final Answer:"
MarkAction == "Action:"
MarkInput == "Action Input:"
MarkObservation == "Observation:"
MarkThought == "Thought:"
MarkQuestion == "Question:"

\* The characters str.strip() removes (those of them the model's text holds).
Whitespace == {SP, NL}

\* ------------------------------------------------- Python's str operations

\* s[i:i+len(pat)] == pat
MatchAt(s, i, pat) ==
    /\ i >= 1
    /\ i + Len(pat) - 1 <= Len(s)
    /\ \A k \in 1..Len(pat) : s[i + k - 1] = pat[k]

\* s.find(pat, from): the least index >= from where pat occurs, 0 when none.
Find(s, pat, from) ==
    LET hits == {i \in from..Len(s) : MatchAt(s, i, pat)}
    IN  IF hits = {} THEN 0 ELSE CHOOSE i \in hits : \A j \in hits : i <= j

\* pat in s
Contains(s, pat) == Find(s, pat, 1) # 0

RECURSIVE LStrip(_, _)
LStrip(s, chars) ==
    IF s # <<>> /\ Head(s) \in chars THEN LStrip(Tail(s), chars) ELSE s

RECURSIVE RStrip(_, _)
RStrip(s, chars) ==
    IF s # <<>> /\ s[Len(s)] \in chars
    THEN RStrip(SubSeq(s, 1, Len(s) - 1), chars)
    ELSE s

\* s.strip() with chars = Whitespace, s.strip('"') with chars = {QUOTE}:
\* every leading and every trailing character of the set is removed.
PyStrip(s, chars) == RStrip(LStrip(s, chars), chars)

\* s.split(sep): the pieces between the occurrences of sep, left to right.
RECURSIVE PySplit(_, _)
PySplit(s, sep) ==
    LET i == Find(s, sep, 1)
    IN  IF i = 0
        THEN <<s>>
        ELSE <<SubSeq(s, 1, i - 1)>>
             \o PySplit(SubSeq(s, i + Len(sep), Len(s)), sep)

\* sep.join(parts)
RECURSIVE PyJoin(_, _)
PyJoin(parts, sep) ==
    IF parts = <<>> THEN <<>>
    ELSE IF Len(parts) = 1 THEN parts[1]
    ELSE parts[1] \o sep \o PyJoin(Tail(parts), sep)


\* ------------------------------------------------------------------ tools

\* The tools of the source, and one more implementation of the abstract
\* Tool whose run is not known to the agent.
CalculatorTool ==
    [cls |-> "CalculatorTool", name |-> "Calculator",
     description |-> "Useful for answering math questions. Input should be a valid mathematical expression string."]

WeatherTool ==
    [cls |-> "WeatherTool", name |-> "Weather",
     description |-> "Get current weather for a city. Input should be the city name."]

LookupTool ==
    [cls |-> "Tool", name |-> "Lookup",
     description |-> "Look up a fact. Input should be a search phrase."]

\* A tool call ends by returning a str or by raising an Exception whose
\* str() is text.
Returned(t) == [raised |-> FALSE, text |-> t]
Raised(t)   == [raised |-> TRUE, text |-> t]

\* eval(expression) on the expressions the model's text can hold: the sum,
\* a number literal, a bare name (NameError), anything else (SyntaxError).
Numbers == {"4", "42"}
Names == {"Delhi", "London", "NYC", "x", "y", "wrong"}
PyEval(expression) ==
    IF expression = <<"2 + 2">> THEN Returned(<<"4">>)
    ELSE IF Len(expression) = 1 /\ expression[1] \in Numbers
         THEN Returned(expression)
    ELSE IF Len(expression) = 1 /\ expression[1] \in Names
         THEN Raised(<<"name '", expression[1], "' is not defined">>)
    ELSE Raised(<<"invalid syntax (<string>, line 1)">>)

\* A calculator that hands its expression back without evaluating it.
CalculatorRunEcho(expression) == Returned(expression)

\* CalculatorTool.run: never raises, an evaluation error becomes its result.
CalculatorRun(expression) ==
    LET r == PyEval(expression)
    IN  IF r.raised
        THEN Returned(<<"Error executing calculation:", SP>> \o r.text)
        ELSE r

\* str.lower(), atom by atom (the city words of the model).
LowerAtom(a) ==
    CASE a = "Delhi"  -> "delhi"
      [] a = "London" -> "london"
      [] a = "NYC"    -> "nyc"
      [] OTHER        -> a

Lower(s) == [i \in 1..Len(s) |-> LowerAtom(s[i])]

\* WeatherTool.run
WeatherRun(city) ==
    IF Contains(Lower(city), <<"london">>) THEN Returned(<<"15°C, Cloudy">>)
    ELSE IF Contains(Lower(city), <<"delhi">>) THEN Returned(<<"32°C, Sunny">>)
    ELSE IF Contains(Lower(city), <<"nyc">>) THEN Returned(<<"20°C, Rain">>)
    ELSE Returned(<<"Unknown city">>)

\* Tool.run of an implementation the agent knows nothing about: it returns
\* some text or raises some Exception.
AbstractRun(input) == {Returned(<<"ok">>), Raised(<<"boom">>)}

\* tool.run(input): the set of ways the call can end.
ToolRun(tool, input) ==
    CASE tool.cls = "CalculatorTool" -> {CalculatorRun(input)}
      [] tool.cls = "WeatherTool"    -> {WeatherRun(input)}
      [] OTHER                       -> AbstractRun(input)

\* -------------------------------------------------- ReActAgent.__init__

\* {t.name: t for t in tools}: a dict, here the sequence of its values in
\* insertion order.  A later tool of the same name replaces the value and
\* keeps the key's place.
RECURSIVE DictOfTools(_)
DictOfTools(ts) ==
    IF ts = <<>> THEN <<>>
    ELSE LET d == DictOfTools(SubSeq(ts, 1, Len(ts) - 1))
             t == ts[Len(ts)]
         IN  IF \E i \in 1..Len(d) : d[i].name = t.name
             THEN [i \in 1..Len(d) |-> IF d[i].name = t.name THEN t ELSE d[i]]
             ELSE Append(d, t)

\* action_name in self.tools: the key is one name, with nothing around it.
InTools(d, action_name) ==
    \E i \in 1..Len(d) : action_name = <<d[i].name>>

\* self.tools[action_name]
ToolAt(d, action_name) ==
    d[CHOOSE i \in 1..Len(d) : action_name = <<d[i].name>>]

\* A manifest that lists the tools last to first.
ToolDescriptionsReversed(ts) ==
    PyJoin([i \in 1..Len(ts) |->
                <<ts[Len(ts) + 1 - i].name, ":", SP,
                  ts[Len(ts) + 1 - i].description>>],
           <<NL>>)

\* "\n".join([f"{t.name}: {t.description}" for t in tools])
ToolDescriptions(ts) ==
    PyJoin([i \in 1..Len(ts) |-> <<ts[i].name, ":", SP, ts[i].description>>],
           <<NL>>)

\* ', '.join(self.tools.keys())
ToolKeys(d) == PyJoin([i \in 1..Len(d) |-> <<d[i].name>>], <<",", SP>>)

\* ------------------------------------------------ the seed of the history

\* system_prompt of ReActAgent.run
SystemPrompt(descriptions, d, q) ==
    <<NL, "Answer the following questions as best you can. You have access to the following tools:",
      NL, NL>>
    \o descriptions
    \o <<NL, NL, "Use the following format:", NL, NL,
         MarkQuestion, SP, "the input question you must answer", NL,
         MarkThought, SP, "you should always think about what to do", NL,
         MarkAction, SP, "the action to take, should be one of [">>
    \o ToolKeys(d)
    \o <<"]", NL,
         MarkInput, SP, "the input to the action", NL,
         MarkObservation, SP, "the result of the action", NL,
         "... (this Thought/Action/Action Input/Observation can repeat N times)", NL,
         MarkThought, SP, "I now know the final answer", NL,
         MarkFinal, SP, "the final answer to the original input question", NL,
         NL, "Begin!", NL, NL,
         MarkQuestion, SP>>
    \o q
    \o <<NL>>

\* --------------------------------------------- the action protocol of run

\* "Final Answer:" in output
HasFinalAnswer(output) == Contains(output, <<MarkFinal>>)

\* The text after the first marker instead of the last.
FinalAnswerTextFirst(output) ==
    PyStrip(PySplit(output, <<MarkFinal>>)[2], Whitespace)

\* output.split("Final Answer:")[-1].strip()
FinalAnswerText(output) ==
    LET parts == PySplit(output, <<MarkFinal>>)
    IN  CHOOSE text \in {PyStrip(last, Whitespace) :
                             last \in {parts[Len(parts)]}} : TRUE

\* re.search(r"Action: (.*?)\nAction Input: (.*)", output, re.DOTALL): the
\* match starts at the first "Action: "; group 1 is lazy and ends at the
\* first "\nAction Input: " after it; group 2 runs to the end of the block.
ReSearch(output) ==
    LET i == Find(output, <<MarkAction, SP>>, 1)
        j == IF i = 0 THEN 0 ELSE Find(output, <<NL, MarkInput, SP>>, i + 2)
    IN  IF i = 0 \/ j = 0
        THEN [matched |-> FALSE, group1 |-> <<>>, group2 |-> <<>>]
        ELSE [matched |-> TRUE,
              group1 |-> SubSeq(output, i + 2, j - 1),
              group2 |-> SubSeq(output, j + 3, Len(output))]

\* match.group(1).strip()
ActionName(m) == PyStrip(m.group1, Whitespace)

\* match.group(2).strip().strip('"')
ActionInput(m) == PyStrip(PyStrip(m.group2, Whitespace), {QUOTE})

\* f"Error: Tool '{action_name}' not found."
NotFoundObservation(action_name) ==
    <<"Error:", SP, "Tool '">> \o action_name \o <<"' not found.">>

\* f"Error: {str(e)}"
ErrorObservation(msg) == <<"Error:", SP>> \o msg

\* The value run returns when the loop ends without a final answer.
StoppedResult == <<"Agent stopped (max steps reached or error).">>

\* ---------------------------------------------------------------- backends

\* An LLMProvider is known to the agent only through generate.  Three kinds
\* are modelled: a backend that may answer any block of a given set, a
\* deterministic backend that replays a script, one block per call, and the
\* MockLLM of the source.
AnyLLM(blocks) == [cls |-> "LLMProvider", blocks |-> blocks, script |-> <<>>]
ScriptedLLM(script) == [cls |-> "Scripted", blocks |-> {}, script |-> script]

\* The blocks MockLLM.generate returns.
MockWeatherAction ==
    <<MarkThought, SP,
      "The user is asking about the weather in Delhi. I should use the Weather tool.",
      NL, MarkAction, SP, "Weather", NL, MarkInput, SP, QUOTE, "Delhi", QUOTE>>
MockWeatherAnswer ==
    <<MarkThought, SP, "I have the weather. Now I can answer.", NL,
      MarkFinal, SP, "It is 32°C and Sunny in Delhi.">>
MockCalcAction ==
    <<MarkThought, SP, "I need to calculate 2 + 2.", NL,
      MarkAction, SP, "Calculator", NL, MarkInput, SP, QUOTE, "2 + 2", QUOTE>>
MockCalcAnswer ==
    <<MarkThought, SP, "I have the result.", NL,
      MarkFinal, SP, "The answer is 4.">>
MockConfused ==
    <<MarkThought, SP, "I am confused.", SP, NL,
      MarkFinal, SP, "I don't know how to handle this.">>

\* The words MockLLM looks for that lie inside a longer atom.
Inside ==
    {<<MarkFinal, "Final Answer">>,
     <<"The user is asking about the weather in Delhi. I should use the Weather tool.", "Weather">>,
     <<"The user is asking about the weather in Delhi. I should use the Weather tool.", "Delhi">>,
     <<"I should use the Weather tool.", "Weather">>,
     <<"It is 32°C and Sunny in Delhi.", "Delhi">>,
     <<"I need to calculate 2 + 2.", "2 + 2">>}

\* word in prompt, for a word that is an atom or lies inside one.
HasWord(prompt, word) ==
    \E i \in 1..Len(prompt) :
        prompt[i] = word \/ <<prompt[i], word>> \in Inside

\* "Observation: 4" in prompt: the text of the observation begins with 4.
HasObservation4(prompt) ==
    \E i \in 1..Len(prompt) :
        /\ MatchAt(prompt, i, <<MarkObservation, SP>>)
        /\ i + 2 <= Len(prompt)
        /\ prompt[i + 2] \in {"4", "42"}

\* MockLLM.generate
MockGenerate(prompt) ==
    IF /\ HasWord(prompt, "Weather")
       /\ HasWord(prompt, "Delhi")
       /\ ~HasWord(prompt, MarkAction)
    THEN MockWeatherAction
    ELSE IF /\ Contains(prompt, <<MarkObservation, SP, "32°C, Sunny">>)
            /\ ~HasWord(prompt, "Final Answer")
    THEN MockWeatherAnswer
    ELSE IF HasWord(prompt, "2 + 2") /\ ~HasWord(prompt, MarkAction)
    THEN MockCalcAction
    ELSE IF HasWord(prompt, "2 + 2") /\ HasObservation4(prompt)
    THEN MockCalcAnswer
    ELSE MockConfused

MockLLM == [cls |-> "MockLLM", blocks |-> {}, script |-> <<>>]

\* self.llm.generate(prompt, stop=["Observation:"]), the k-th call of the
\* run: the blocks the backend can return.
Generate(l, prompt, k) ==
    CASE l.cls = "Scripted" ->
            IF k <= Len(l.script) THEN {l.script[k]} ELSE {}
      [] l.cls = "MockLLM" -> {MockGenerate(prompt)}
      [] OTHER -> l.blocks

\* ------------------------------------------------------------------ inputs

MaxSteps == 3
DefaultMaxSteps == 5

QueryMath    == <<"What is", SP, "2 + 2", "?">>
QueryWeather == <<"What is the weather in", SP, "Delhi", "?">>
Queries == {QueryMath, QueryWeather}

ToolLists == {<<CalculatorTool, WeatherTool>>,
              <<CalculatorTool, WeatherTool, LookupTool>>}

\* Blocks a backend may generate.
BlockCalc ==
    <<MarkAction, SP, "Calculator", NL, MarkInput, SP, QUOTE, "2 + 2", QUOTE>>
BlockAnswer4 == <<MarkFinal, SP, "The answer is 4.">>
BlockWeather ==
    <<MarkThought, SP, "I should use the Weather tool.", NL,
      MarkAction, SP, "Weather", NL, MarkInput, SP, QUOTE, "Delhi", QUOTE>>
BlockLookup == <<MarkAction, SP, "Lookup", NL, MarkInput, SP, "x">>
BlockNearMiss ==
    <<MarkAction, SP, "calculator", NL, MarkInput, SP, QUOTE, "2 + 2", QUOTE>>
BlockPadded ==
    <<MarkAction, SP, SP, "Weather", SP, NL, MarkInput, SP, "NYC", NL>>
BlockCalcName == <<MarkAction, SP, "Calculator", NL, MarkInput, SP, "Delhi">>
BlockTwoAnswers ==
    <<MarkThought, SP, "I know.", NL, MarkFinal, SP, "wrong", NL,
      MarkFinal, SP, "42", SP, NL>>
BlockActionAndAnswer == BlockCalc \o <<NL>> \o BlockAnswer4
BlockThought == <<MarkThought, SP, "I am thinking.">>
BlockEmpty == <<>>
BlockNoSpace == <<MarkAction, "Calculator", NL, MarkInput, SP, "2 + 2">>
BlockNoInput == <<MarkAction, SP, "Calculator">>

LoopBlocks ==
    {BlockCalc, BlockAnswer4, BlockWeather, BlockLookup, BlockNearMiss,
     BlockPadded, BlockCalcName, BlockTwoAnswers, BlockActionAndAnswer,
     BlockThought, BlockEmpty, BlockNoSpace, BlockNoInput}

ScriptMath == <<BlockCalc, BlockAnswer4>>

LoopLLMs == {AnyLLM(LoopBlocks), ScriptedLLM(ScriptMath)}

\* The step budgets a caller passes: any small one to any backend, the
\* default to a scripted backend (whose runs do not branch).
StepChoices(l) ==
    (-1 .. MaxSteps) \cup (IF l.cls = "Scripted" THEN {DefaultMaxSteps} ELSE {})

\* ------------------------------------------------------------------- state

VARIABLES
    llm,                \* self.llm
    tools,              \* self.tools
    tool_descriptions,  \* self.tool_descriptions
    pc,                 \* where the run is: idle, loop, classify, dispatch,
                        \* observe, done
    query, max_steps,   \* the arguments of run
    history, step, output, action_name, action_input, observation,
                        \* the locals of run
    result,             \* the value run returned
    outcome,            \* how the run ended: answer, aborted, exhausted
    events,             \* the calls and appends of the run, in order
    registered,         \* the list of tools __init__ was given
    finished,           \* the calls of run that have returned, in order
    suspended           \* the frame of a second call of run that is in
                        \* progress while this one executes

vars == <<llm, tools, tool_descriptions, pc, query, max_steps, history, step,
          output, action_name, action_input, observation, result, outcome,
          events, registered, finished, suspended>>

agent == <<llm, tools, tool_descriptions, registered>>
args  == <<query, max_steps>>
callers == <<finished, suspended>>

\* The locals of one call of run (its frame), with what it logged.
Frame(p, q, n, h, s, o, an, ai, ob, r, oc, ev) ==
    [pc |-> p, query |-> q, max_steps |-> n, history |-> h, step |-> s,
     output |-> o, action_name |-> an, action_input |-> ai,
     observation |-> ob, result |-> r, outcome |-> oc, events |-> ev]

\* The frame of a call that has not begun.
IdleFrame ==
    Frame("idle", <<>>, 0, <<>>, 0, <<>>, <<>>, <<>>, <<>>, <<>>, "none", <<>>)

\* The frame of the call that is executing.
CurrentFrame ==
    Frame(pc, query, max_steps, history, step, output, action_name,
          action_input, observation, result, outcome, events)

Event(kind, name, input, text, raised) ==
    [kind |-> kind, name |-> name, input |-> input, text |-> text,
     raised |-> raised]

\* The generation calls, tool invocations and observations logged so far.
OfKind(kind) == {i \in 1..Len(events) : events[i].kind = kind}
GenCalls  == Cardinality(OfKind("generate"))
ToolCalls == Cardinality(OfKind("tool"))
ObsCount  == Cardinality(OfKind("observe"))

\* After ReActAgent(llm, tools), before any run.
InitWith(llms, lists) ==
    /\ llm \in llms
    /\ \E ts \in lists :
          /\ registered = ts
          /\ tools = DictOfTools(ts)
          /\ tool_descriptions = ToolDescriptions(ts)
    /\ pc = "idle"
    /\ query = <<>>
    /\ max_steps = 0
    /\ history = <<>>
    /\ step = 0
    /\ output = <<>>
    /\ action_name = <<>>
    /\ action_input = <<>>
    /\ observation = <<>>
    /\ result = <<>>
    /\ outcome = "none"
    /\ events = <<>>
    /\ finished = <<>>
    /\ suspended = IdleFrame

Init == InitWith(LoopLLMs, ToolLists)

\* A run whose history goes on from the history of the call before it.
RunStartFromLast(q, n) ==
    /\ pc = "idle"
    /\ query' = q
    /\ max_steps' = n
    /\ history' = (IF finished = <<>> THEN <<>>
                   ELSE finished[Len(finished)].history)
                  \o SystemPrompt(tool_descriptions, tools, q)
    /\ step' = 0
    /\ pc' = "loop"
    /\ UNCHANGED <<agent, callers, output, action_name, action_input, observation,
                   result, outcome, events>>

\* A run whose history goes on from the history of the other call in progress.
RunStartBesideOther(q, n) ==
    /\ pc = "idle"
    /\ query' = q
    /\ max_steps' = n
    /\ history' = suspended.history \o SystemPrompt(tool_descriptions, tools, q)
    /\ step' = 0
    /\ pc' = "loop"
    /\ UNCHANGED <<agent, callers, output, action_name, action_input, observation,
                   result, outcome, events>>

\* run(query, max_steps): history = system_prompt, the loop is entered.
RunStart(q, n) ==
    /\ pc = "idle"
    /\ query' = q
    /\ max_steps' = n
    /\ history' = SystemPrompt(tool_descriptions, tools, q)
    /\ step' = 0
    /\ pc' = "loop"
    /\ UNCHANGED <<agent, callers, output, action_name, action_input, observation,
                   result, outcome, events>>

\* history += output + "\n"
AppendBlock(h, block) == h \o block \o <<NL>>

\* An observation that replaces the history instead of extending it.
AppendObservationOverwrites(h, obs) == <<MarkObservation, SP>> \o obs \o <<NL>>

\* history += f"Observation: {observation}\n"
AppendObservation(h, obs) == h \o <<MarkObservation, SP>> \o obs \o <<NL>>

\* A range that runs one step too far.
InRangeInclusive(s, n) == s <= n

\* for step in range(max_steps): whether the body runs once more.
InRange(s, n) == s < n

\* 1. output = self.llm.generate(history, ...); history += output + "\n"
GenerateBlock ==
    /\ pc = "loop"
    /\ InRange(step, max_steps)
    /\ \E block \in Generate(llm, history, GenCalls + 1) :
          /\ output' = block
          /\ history' = AppendBlock(history, block)
          /\ events' = Append(events,
                  Event("generate", <<>>, history, block, FALSE))
    /\ pc' = "classify"
    /\ UNCHANGED <<agent, callers, args, step, action_name, action_input, observation,
                   result, outcome>>

\* 2. "Final Answer:" in output: return the text after the last marker.
ReturnFinalAnswer ==
    /\ pc = "classify"
    /\ HasFinalAnswer(output)
    /\ result' = FinalAnswerText(output)
    /\ outcome' = "answer"
    /\ pc' = "done"
    /\ UNCHANGED <<agent, callers, args, history, step, output, action_name,
                   action_input, observation, events>>

\* A parse failure that is retried: the step is counted and the loop goes on.
ParseFailureRetries ==
    /\ pc = "classify"
    /\ ~HasFinalAnswer(output)
    /\ ~ReSearch(output).matched
    /\ step' = step + 1
    /\ pc' = "loop"
    /\ UNCHANGED <<agent, callers, args, history, output, action_name, action_input,
                   observation, result, outcome, events>>

\* A parse failure that returns a diagnostic of its own.
ParseFailureDiagnostic ==
    /\ pc = "classify"
    /\ ~HasFinalAnswer(output)
    /\ ~ReSearch(output).matched
    /\ result' = <<"Error: Could not parse action. Ending.">>
    /\ outcome' = "aborted"
    /\ pc' = "done"
    /\ UNCHANGED <<agent, callers, args, history, step, output, action_name,
                   action_input, observation, events>>

\* A parse failure that is never left: the same block is parsed again.
ParseFailureHangs ==
    /\ pc = "classify"
    /\ ~HasFinalAnswer(output)
    /\ ~ReSearch(output).matched
    /\ UNCHANGED vars

\* 3. no match: break, and the return after the loop.
ParseFailure ==
    /\ pc = "classify"
    /\ ~HasFinalAnswer(output)
    /\ ~ReSearch(output).matched
    /\ result' = StoppedResult
    /\ outcome' = "aborted"
    /\ pc' = "done"
    /\ UNCHANGED <<agent, callers, args, history, step, output, action_name,
                   action_input, observation, events>>

\* A match that is taken whether or not the block holds a final answer.
ParseActionFirst ==
    /\ pc = "classify"
    /\ ReSearch(output).matched
    /\ \E match \in {ReSearch(output)} :
          /\ action_name' = ActionName(match)
          /\ action_input' = ActionInput(match)
    /\ pc' = "dispatch"
    /\ UNCHANGED <<agent, callers, args, history, step, output, observation, result,
                   outcome, events>>

\* 3. a match: action_name and action_input are taken from its groups.
ParseAction ==
    /\ pc = "classify"
    /\ ~HasFinalAnswer(output)
    /\ ReSearch(output).matched
    /\ \E match \in {ReSearch(output)} :
          /\ action_name' = ActionName(match)
          /\ action_input' = ActionInput(match)
    /\ pc' = "dispatch"
    /\ UNCHANGED <<agent, callers, args, history, step, output, observation, result,
                   outcome, events>>

\* A raised error whose message is passed on without the "Error: " prefix.
ObservationOfRaw(r) == r.text

\* The observation a finished tool call leaves.
ObservationOf(r) == IF r.raised THEN ErrorObservation(r.text) ELSE r.text

\* 4. action_name in self.tools: the tool runs; what it raises is caught.
ExecuteTool ==
    /\ pc = "dispatch"
    /\ InTools(tools, action_name)
    /\ \E r \in ToolRun(ToolAt(tools, action_name), action_input) :
          /\ observation' = ObservationOf(r)
          /\ events' = Append(events,
                  Event("tool", action_name, action_input, r.text, r.raised))
    /\ pc' = "observe"
    /\ UNCHANGED <<agent, callers, args, history, step, output, action_name,
                   action_input, result, outcome>>

\* An unknown tool that ends the run instead of being reported back.
ToolNotFoundAborts ==
    /\ pc = "dispatch"
    /\ ~InTools(tools, action_name)
    /\ result' = StoppedResult
    /\ outcome' = "aborted"
    /\ pc' = "done"
    /\ UNCHANGED <<agent, callers, args, history, step, output, action_name,
                   action_input, observation, events>>

\* 4. else: the observation names the missing tool.
ToolNotFound ==
    /\ pc = "dispatch"
    /\ ~InTools(tools, action_name)
    /\ observation' = NotFoundObservation(action_name)
    /\ pc' = "observe"
    /\ UNCHANGED <<agent, callers, args, history, step, output, action_name,
                   action_input, result, outcome, events>>

\* An observation that is logged and counted but never appended.
ObserveSkipsAppend ==
    /\ pc = "observe"
    /\ events' = Append(events,
            Event("observe", <<>>, <<>>, observation, FALSE))
    /\ step' = step + 1
    /\ pc' = "loop"
    /\ UNCHANGED <<agent, callers, args, history, output, action_name, action_input,
                   observation, result, outcome>>

\* history += f"Observation: {observation}\n", and the next step.
Observe ==
    /\ pc = "observe"
    /\ history' = AppendObservation(history, observation)
    /\ events' = Append(events,
            Event("observe", <<>>, <<>>, observation, FALSE))
    /\ step' = step + 1
    /\ pc' = "loop"
    /\ UNCHANGED <<agent, callers, args, output, action_name, action_input,
                   observation, result, outcome>>

\* The range is used up: the return after the loop.
BudgetExhausted ==
    /\ pc = "loop"
    /\ ~InRange(step, max_steps)
    /\ result' = StoppedResult
    /\ outcome' = "exhausted"
    /\ pc' = "done"
    /\ UNCHANGED <<agent, callers, args, history, step, output, action_name,
                   action_input, observation, events>>

Start == \E q \in Queries : \E n \in StepChoices(llm) : RunStart(q, n)

Next ==
    \/ Start
    \/ GenerateBlock
    \/ ReturnFinalAnswer
    \/ ParseFailure
    \/ ParseAction
    \/ ExecuteTool
    \/ ToolNotFound
    \/ Observe
    \/ BudgetExhausted

Spec == Init /\ [][Next]_vars

\* ------------------------------------------------------------ progress

\* Every generation call and every tool call returns or raises, and the
\* interpreter goes on to the next statement: a step that can be taken is
\* taken.  The backend answers with a final answer, an action, an action of
\* an unknown tool, an action of a tool that may raise, or a block that is
\* neither, in any order.
FairBlocks ==
    {BlockAnswer4, BlockCalc, BlockLookup, BlockNearMiss, BlockThought}

InitFair ==
    InitWith({AnyLLM(FairBlocks)}, {<<CalculatorTool, WeatherTool, LookupTool>>})

SpecFair == InitFair /\ [][Next]_vars /\ WF_vars(Next)

\* ------------------------------------------- one step, many kinds of block

\* Every text of at most n atoms over an alphabet.
Texts(alphabet, n) == UNION {[1..k -> alphabet] : k \in 0..n}

MaxAnswerLen == 4
MaxInputLen == 2

AnswerAlphabet == {MarkFinal, SP, NL, "42", "wrong"}
InputAlphabet == {"x", SP, QUOTE}
ParseNames == {"Lookup", "Calculator", "lookup"}

\* Blocks of final answers (and of none): every short text over the marker,
\* whitespace and two words.
AnswerBlocks == Texts(AnswerAlphabet, MaxAnswerLen)

\* Action: X\nAction Input: "Y"
QuotedAction(X, Y) ==
    <<MarkAction, SP, X, NL, MarkInput, SP, QUOTE>> \o Y \o <<QUOTE>>

QuotedActionBlocks ==
    {QuotedAction(X, Y) : X \in ParseNames, Y \in Texts(InputAlphabet, MaxInputLen)}

\* Action: X\nAction Input: R, the input as the backend wrote it.
PlainAction(X, R) == <<MarkAction, SP, X, NL, MarkInput, SP>> \o R

PlainActionBlocks ==
    {PlainAction(X, R) : X \in ParseNames, R \in Texts(InputAlphabet, MaxInputLen)}

\* A backend that writes on after the action: the observation it imagines.
Trailing(b) == b \o <<NL, MarkObservation, SP, "4", NL>>

TrailingBlocks == {Trailing(b) : b \in PlainActionBlocks}

\* Action: X, a line of other text, Action Input: x
InterveningAction(X, line) ==
    <<MarkAction, SP, X, NL>> \o line \o <<NL, MarkInput, SP, "x">>

InterveningLines == {<<"x">>, <<MarkThought, SP, "x">>}

InterveningBlocks ==
    {InterveningAction(X, line) : X \in ParseNames, line \in InterveningLines}

\* Text before Action: on its line.
MidLineBlocks == {<<"x", SP>> \o PlainAction(X, <<"x">>) : X \in ParseNames}

ParseBlocks ==
    LoopBlocks \cup AnswerBlocks \cup QuotedActionBlocks \cup PlainActionBlocks
    \cup TrailingBlocks \cup InterveningBlocks \cup MidLineBlocks

InitParse ==
    InitWith({AnyLLM(ParseBlocks)}, {<<CalculatorTool, WeatherTool, LookupTool>>})

StartParse == RunStart(QueryMath, 1)

NextParse ==
    \/ StartParse
    \/ GenerateBlock
    \/ ReturnFinalAnswer
    \/ ParseFailure
    \/ ParseAction
    \/ ExecuteTool
    \/ ToolNotFound
    \/ Observe
    \/ BudgetExhausted

\* One run of one step against a backend that may answer any of ParseBlocks.
SpecParse == InitParse /\ [][NextParse]_vars

\* --------------------------------------------- several calls, one agent

\* The calls of run that __main__ makes on one agent.
DemoRuns == 2

MaxTools == 2

\* A second tool registered under the name Calculator.
CalculatorAgain ==
    [cls |-> "Tool", name |-> "Calculator",
     description |-> "Another calculator. Input should be a sum."]

ToolPool == {CalculatorTool, WeatherTool, LookupTool, CalculatorAgain}

\* Every list of at most MaxTools tools of the pool, and the list of __main__.
RunToolLists ==
    UNION {[1..k -> ToolPool] : k \in 0..MaxTools}

\* Deterministic backends: the mock of the source and a few scripts.
RunScripts ==
    {ScriptMath,
     <<BlockLookup, BlockLookup, BlockAnswer4>>,
     <<BlockNearMiss, BlockThought>>,
     <<BlockWeather, BlockCalcName, BlockTwoAnswers>>}

RunLLMs == {MockLLM} \cup {ScriptedLLM(script) : script \in RunScripts}

RunSteps == {1, DefaultMaxSteps}

InitRuns == InitWith(RunLLMs, RunToolLists)

StartRuns == \E q \in Queries : \E n \in RunSteps : RunStart(q, n)

\* The call has returned and the caller calls run again: the frame of the
\* finished call is gone, a new one has not begun.
NextCall ==
    /\ pc = "done"
    /\ Len(finished) + 1 < DemoRuns
    /\ finished' = Append(finished, CurrentFrame)
    /\ pc' = "idle"
    /\ query' = <<>>
    /\ max_steps' = 0
    /\ history' = <<>>
    /\ step' = 0
    /\ output' = <<>>
    /\ action_name' = <<>>
    /\ action_input' = <<>>
    /\ observation' = <<>>
    /\ result' = <<>>
    /\ outcome' = "none"
    /\ events' = <<>>
    /\ UNCHANGED <<agent, suspended>>

NextRuns ==
    \/ StartRuns
    \/ GenerateBlock
    \/ ReturnFinalAnswer
    \/ ParseFailure
    \/ ParseAction
    \/ ExecuteTool
    \/ ToolNotFound
    \/ Observe
    \/ BudgetExhausted
    \/ NextCall

\* Calls of run one after the other on one agent, the backend deterministic.
SpecRuns == InitRuns /\ [][NextRuns]_vars

\* ------------------------------------------ two calls of run interleaved

\* Two callers are inside run on the same agent.  Each call has its own
\* locals; the variables of the model hold those of the call that is
\* executing and suspended holds those of the other.  Switch hands the
\* processor to the other call.
Switch ==
    /\ suspended' = CurrentFrame
    /\ pc' = suspended.pc
    /\ query' = suspended.query
    /\ max_steps' = suspended.max_steps
    /\ history' = suspended.history
    /\ step' = suspended.step
    /\ output' = suspended.output
    /\ action_name' = suspended.action_name
    /\ action_input' = suspended.action_input
    /\ observation' = suspended.observation
    /\ result' = suspended.result
    /\ outcome' = suspended.outcome
    /\ events' = suspended.events
    /\ UNCHANGED <<agent, finished>>

ThreadBlocks ==
    {BlockCalc, BlockLookup, BlockNearMiss, BlockAnswer4, BlockThought}

ThreadSteps == {1, 2}

InitThreads == InitWith({AnyLLM(ThreadBlocks)}, {<<CalculatorTool, LookupTool>>})

StartThreads == \E q \in Queries : \E n \in ThreadSteps : RunStart(q, n)

NextThreads ==
    \/ StartThreads
    \/ GenerateBlock
    \/ ReturnFinalAnswer
    \/ ParseFailure
    \/ ParseAction
    \/ ExecuteTool
    \/ ToolNotFound
    \/ Observe
    \/ BudgetExhausted
    \/ Switch

\* Two calls of run on one agent, their steps interleaved in any order.
SpecThreads == InitThreads /\ [][NextThreads]_vars

\* ------------------------------------------------------- reading the log

IsPrefix(a, b) == Len(a) <= Len(b) /\ SubSeq(b, 1, Len(a)) = a

LastEvent == events[Len(events)]

\* How run classifies a block.
IsActionBlock(b) == ~HasFinalAnswer(b) /\ ReSearch(b).matched
IsUnparseable(b) == ~HasFinalAnswer(b) /\ ~ReSearch(b).matched

\* The names a tool is registered under.
RegisteredNames == {tools[k].name : k \in 1..Len(tools)}

\* ------------------------------------------------------------------ claims

\* C1: a run with max_steps = n >= 0 makes at most n generation calls; a
\* finished run all of whose blocks parsed as actions made exactly n
\* generation calls and appended exactly n observations, and returned the
\* budget-exhausted result; with n = 1 that is one generation call and one
\* observation.
C1_StepBudget ==
    (pc # "idle" /\ max_steps >= 0) =>
        /\ GenCalls <= max_steps
        /\ (/\ pc = "done"
            /\ \A i \in OfKind("generate") : IsActionBlock(events[i].text))
           => /\ GenCalls = max_steps
              /\ ObsCount = max_steps
              /\ step = max_steps
              /\ outcome = "exhausted"
              /\ result = StoppedResult

C1_Witness ==
    /\ pc = "done"
    /\ max_steps = 1
    /\ outcome = "exhausted"
    /\ GenCalls = 1
    /\ ObsCount = 1
    /\ IsActionBlock(events[1].text)

\* C2: a block that parses to an action whose trimmed name is no registered
\* name does not end the run: nothing is invoked, the next segment of the
\* history is the observation Error: Tool '<name>' not found., the step is
\* counted and the loop is back at its head, where the next generation call
\* (made whenever the budget allows one) reads that history.
UnknownName(b) ==
    /\ IsActionBlock(b)
    /\ \A n \in RegisteredNames : ActionName(ReSearch(b)) # <<n>>

C2_UnknownToolRecovers ==
    \A i \in OfKind("generate") :
        LET b     == events[i].text
            obs   == <<"Error:", SP, "Tool '">> \o ActionName(ReSearch(b))
                     \o <<"' not found.">>
            after == events[i].input \o b
                     \o <<NL, MarkObservation, SP>> \o obs \o <<NL>>
        IN  UnknownName(b) =>
              /\ (i = Len(events)) =>
                    /\ pc \in {"classify", "dispatch", "observe"}
                    /\ outcome = "none"
              /\ (i < Len(events)) =>
                    /\ events[i + 1].kind = "observe"
                    /\ events[i + 1].text = obs
              /\ (i + 1 = Len(events)) =>
                    /\ history = after
                    /\ step = GenCalls
                    /\ \/ pc = "loop" /\ outcome = "none"
                       \/ pc = "done" /\ outcome = "exhausted"
                                      /\ step >= max_steps
                    /\ (pc = "loop" /\ step < max_steps)
                          => Generate(llm, history, GenCalls + 1) # {}
              /\ (i + 1 < Len(events)) =>
                    /\ events[i + 2].kind = "generate"
                    /\ events[i + 2].input = after

C2_Witness ==
    \E i \in OfKind("generate") :
        /\ events[i].text = BlockNearMiss
        /\ UnknownName(events[i].text)
        /\ i + 2 <= Len(events)
        /\ events[i + 2].kind = "generate"

\* C3: when a registered tool's run raises, the error is caught: the
\* observation is Error: <message>, and from there the run goes on as after
\* a call that returned (the observation is appended, the step counted, the
\* next generation call reads the extended history).
C3_ToolErrorRecovers ==
    \A j \in OfKind("tool") :
        LET e     == events[j]
            obs   == IF e.raised THEN <<"Error:", SP>> \o e.text ELSE e.text
            after == events[j - 1].input \o events[j - 1].text
                     \o <<NL, MarkObservation, SP>> \o obs \o <<NL>>
        IN  /\ j > 1
            /\ events[j - 1].kind = "generate"
            /\ (j = Len(events)) =>
                  /\ pc = "observe"
                  /\ observation = obs
                  /\ outcome = "none"
            /\ (j < Len(events)) =>
                  /\ events[j + 1].kind = "observe"
                  /\ events[j + 1].text = obs
            /\ (j + 1 = Len(events)) =>
                  /\ history = after
                  /\ step = GenCalls
                  /\ \/ pc = "loop" /\ outcome = "none"
                     \/ pc = "done" /\ outcome = "exhausted"
                                    /\ step >= max_steps
            /\ (j + 1 < Len(events)) =>
                  /\ events[j + 2].kind = "generate"
                  /\ events[j + 2].input = after

C3_Witness ==
    \E j \in OfKind("tool") :
        /\ events[j].raised
        /\ j + 2 <= Len(events)
        /\ events[j + 2].kind = "generate"
        /\ events[j + 1].text = <<"Error:", SP, "boom">>

\* C4: a block with neither the final-answer marker nor a matching action
\* ends the run at once: it is the last thing the run logs (no tool call,
\* no observation, no further generation call), the history ends with that
\* block, and the run returns the stopped result whatever budget is left.
C4_ParseFailureAborts ==
    \A i \in OfKind("generate") :
        IsUnparseable(events[i].text) =>
            /\ i = Len(events)
            /\ history = events[i].input \o events[i].text \o <<NL>>
            /\ \/ pc = "classify" /\ outcome = "none" /\ ENABLED ParseFailure
               \/ pc = "done" /\ outcome = "aborted" /\ result = StoppedResult

C4_Witness ==
    /\ pc = "done"
    /\ outcome = "aborted"
    /\ step + 1 < max_steps
    /\ IsUnparseable(LastEvent.text)
    /\ ToolCalls = 0

\* C5: the history only grows: every step leaves it a prefix of its next
\* value; a generation call appends exactly its block and a line break
\* (whatever the block is), an observation appends exactly
\* "Observation: <text>" and a line break, and nothing else touches it once
\* the run has seeded it.
C5_AppendOnly ==
    [][ /\ IsPrefix(history, history')
        /\ (events' = events) =>
              \/ history' = history
              \/ pc = "idle" /\ history = <<>>
        /\ (events' # events) =>
              /\ Len(events') = Len(events) + 1
              /\ IsPrefix(events, events')
              /\ LET e == events'[Len(events')]
                 IN  CASE e.kind = "generate" ->
                            /\ history' = history \o e.text \o <<NL>>
                            /\ Len(history') > Len(history)
                       [] e.kind = "observe" ->
                            /\ history' = history \o <<MarkObservation, SP>>
                                          \o e.text \o <<NL>>
                            /\ Len(history') > Len(history)
                       [] OTHER -> history' = history
      ]_vars

C5_Witness ==
    /\ pc = "loop"
    /\ GenCalls = 2
    /\ ObsCount = 2
    /\ Len(history) > Len(SystemPrompt(tool_descriptions, tools, query))

\* C7 (as amended): a run that uses up its budget and a run aborted by an
\* unparseable block return the same value, the one stopped result.
C7_SameSentinel ==
    (pc = "done" /\ outcome \in {"exhausted", "aborted"})
        => result = StoppedResult

C7_Witness ==
    /\ pc = "done"
    /\ outcome = "exhausted"
    /\ GenCalls >= 1
    /\ result = StoppedResult

\* C7 (as claimed): the value a budget-exhausted run returns is not the
\* value an aborted run returns (StoppedResult, by C7_SameSentinel).
C7_Distinguishable ==
    (pc = "done" /\ outcome = "exhausted") => result # StoppedResult

\* C8: the run is a strict sequence.  Every tool invocation directly follows
\* the generation call whose block parsed to its name and input; every
\* observation directly follows its tool call (or the block naming an
\* unknown tool); every generation call but the first directly follows an
\* observation, at most one tool call lies between two generation calls, and
\* the context of each generation call is the whole history so far: the
\* seed for the first, and the previous call's context, block and
\* observation for every other.
PrevGenerate(i) == IF events[i - 2].kind = "generate" THEN i - 2 ELSE i - 3

C8_Sequential ==
    /\ \A j \in OfKind("tool") :
          /\ j > 1
          /\ events[j - 1].kind = "generate"
          /\ IsActionBlock(events[j - 1].text)
          /\ events[j].name = ActionName(ReSearch(events[j - 1].text))
          /\ events[j].input = ActionInput(ReSearch(events[j - 1].text))
    /\ \A k \in OfKind("observe") :
          /\ k > 1
          /\ \/ /\ events[k - 1].kind = "tool"
                /\ events[k].text =
                      IF events[k - 1].raised
                      THEN <<"Error:", SP>> \o events[k - 1].text
                      ELSE events[k - 1].text
             \/ /\ events[k - 1].kind = "generate"
                /\ UnknownName(events[k - 1].text)
    /\ \A i \in OfKind("generate") :
          IF i = 1
          THEN events[i].input = SystemPrompt(tool_descriptions, tools, query)
          ELSE /\ i >= 3
               /\ events[i - 1].kind = "observe"
               /\ LET p == PrevGenerate(i)
                  IN  /\ p >= 1
                      /\ events[p].kind = "generate"
                      /\ (p = i - 3) => events[i - 2].kind = "tool"
                      /\ events[i].input =
                            events[p].input \o events[p].text
                            \o <<NL, MarkObservation, SP>>
                            \o events[i - 1].text \o <<NL>>
    /\ (events # <<>>) => events[1].kind = "generate"

C8_Witness ==
    /\ GenCalls = 3
    /\ ToolCalls = 2
    /\ ObsCount = 2
    /\ events[5].kind = "tool"

\* C10: tools Calculator and Weather, the query What is 2 + 2?, a backend
\* scripted to answer the Calculator action and then the final answer, and
\* a budget of at least two steps: the finished run invoked Calculator once,
\* with 2 + 2, observed 4, made exactly two generation calls and returned
\* The answer is 4.
C10_EndToEnd ==
    (/\ llm = ScriptedLLM(ScriptMath)
     /\ tools = <<CalculatorTool, WeatherTool>>
     /\ query = QueryMath
     /\ max_steps >= 2
     /\ pc = "done")
    => /\ result = <<"The answer is 4.">>
       /\ outcome = "answer"
       /\ GenCalls = 2
       /\ ToolCalls = 1
       /\ ObsCount = 1
       /\ Len(events) = 4
       /\ events[2] = Event("tool", <<"Calculator">>, <<"2 + 2">>, <<"4">>, FALSE)
       /\ events[3].text = <<"4">>
       /\ history = SystemPrompt(tool_descriptions, tools, query)
                    \o BlockCalc \o <<NL, MarkObservation, SP, "4", NL>>
                    \o BlockAnswer4 \o <<NL>>

C10_Witness ==
    /\ llm = ScriptedLLM(ScriptMath)
    /\ tools = <<CalculatorTool, WeatherTool>>
    /\ query = QueryMath
    /\ max_steps = DefaultMaxSteps
    /\ pc = "done"
    /\ result = <<"The answer is 4.">>
    /\ GenCalls = 2

\* C6: a block that holds the final-answer marker, once or more, ends the
\* run with the text after the last marker, without its leading and trailing
\* whitespace.
LastFinal(b) ==
    CHOOSE k \in 1..Len(b) :
        /\ b[k] = MarkFinal
        /\ \A m \in (k + 1)..Len(b) : b[m] # MarkFinal

\* r is t without its leading and trailing whitespace.
IsTrimOf(r, t) ==
    \E a \in 0..Len(t) :
        /\ a + Len(r) <= Len(t)
        /\ SubSeq(t, a + 1, a + Len(r)) = r
        /\ \A k \in 1..a : t[k] \in {SP, NL}
        /\ \A k \in (a + Len(r) + 1)..Len(t) : t[k] \in {SP, NL}
        /\ (r # <<>>) => (r[1] \notin {SP, NL} /\ r[Len(r)] \notin {SP, NL})

C6_LastFinalAnswer ==
    \A i \in OfKind("generate") :
        LET b == events[i].text
        IN  (\E k \in 1..Len(b) : b[k] = MarkFinal) =>
              /\ i = Len(events)
              /\ \/ pc = "classify" /\ outcome = "none"
                 \/ /\ pc = "done"
                    /\ outcome = "answer"
                    /\ IsTrimOf(result, SubSeq(b, LastFinal(b) + 1, Len(b)))

C6_Witness ==
    /\ pc = "done"
    /\ outcome = "answer"
    /\ output = BlockTwoAnswers
    /\ result = <<"42">>

\* C9 (as claimed): after a block Action: X\nAction Input: "Y", X a
\* registered name and Y any text without the final-answer marker, the tool
\* registered as X is invoked with exactly Y.
C9_QuotedInput ==
    \A i \in OfKind("generate") :
        \A X \in RegisteredNames :
            \A Y \in Texts(InputAlphabet, MaxInputLen) :
                (events[i].text = QuotedAction(X, Y) /\ i < Len(events)) =>
                    /\ events[i + 1].kind = "tool"
                    /\ events[i + 1].name = <<X>>
                    /\ events[i + 1].input = Y

\* The tool invocations of two logs agree: the same tool given the same
\* input behaved the same way in both.
ToolsAgree(e1, e2) ==
    \A i \in 1..Len(e1) : \A j \in 1..Len(e2) :
        (/\ e1[i].kind = "tool"
         /\ e2[j].kind = "tool"
         /\ e1[i].name = e2[j].name
         /\ e1[i].input = e2[j].input)
        => /\ e1[i].raised = e2[j].raised
           /\ e1[i].text = e2[j].text

\* C11: two calls of run on one agent whose backend is deterministic, with
\* the same query and the same max_steps, the tools answering equal inputs
\* equally, return the same result for the same reason and produce the same
\* history, generation call for generation call and tool call for tool call.
C11_Replay ==
    \A k \in 1..Len(finished) :
        LET f == finished[k]
        IN  (/\ pc = "done"
             /\ f.query = query
             /\ f.max_steps = max_steps
             /\ ToolsAgree(f.events, events))
            => /\ result = f.result
               /\ outcome = f.outcome
               /\ history = f.history
               /\ events = f.events

C11_Witness ==
    /\ pc = "done"
    /\ Len(finished) = 1
    /\ finished[1].query = query
    /\ finished[1].max_steps = max_steps
    /\ ToolCalls = 1
    /\ GenCalls = 2
    /\ outcome = "answer"
    /\ finished[1].result = result

\* C12 (as claimed): when the block goes on beyond the stop marker
\* Observation: and the block cut at the marker is an action, the name and
\* the input the run dispatches are those of the cut block.
C12_TrailingIgnored ==
    LET k == Find(output, <<MarkObservation>>, 1)
        t == SubSeq(output, 1, k - 1)
    IN  (pc = "dispatch" /\ k > 0 /\ IsActionBlock(t)) =>
            /\ action_name = ActionName(ReSearch(t))
            /\ action_input = ActionInput(ReSearch(t))

\* C16 (as claimed): the input dispatched is the trimmed remainder after
\* Action Input: with one layer of double quotes removed when, and only
\* when, a quote stands at both ends; an input quoted at one end is passed
\* unchanged.
OneLayer(raw) ==
    IF Len(raw) >= 2 /\ raw[1] = QUOTE /\ raw[Len(raw)] = QUOTE
    THEN SubSeq(raw, 2, Len(raw) - 1)
    ELSE raw

C16_OneLayer ==
    (pc = "dispatch") =>
        action_input = OneLayer(PyStrip(ReSearch(output).group2, Whitespace))

\* C17 (as claimed): the name dispatched is the trimmed text after Action:
\* up to the first line break, it holds no line break, and the Action: of
\* the match begins a line.
C17_NameIsOneLine ==
    LET i == Find(output, <<MarkAction, SP>>, 1)
        k == Find(output, <<NL>>, i + 2)
    IN  (pc = "dispatch") =>
            /\ i = 1 \/ output[i - 1] = NL
            /\ action_name = PyStrip(SubSeq(output, i + 2, k - 1), Whitespace)
            /\ \A j \in 1..Len(action_name) : action_name[j] # NL

\* What a log leaves appended to a history h: a block and a line break for
\* each generation call, an Observation: line for each observation.
Segment(e) ==
    IF e.kind = "generate" THEN e.text \o <<NL>>
    ELSE IF e.kind = "observe" THEN <<MarkObservation, SP>> \o e.text \o <<NL>>
    ELSE <<>>

RECURSIVE Replay(_, _)
Replay(h, ev) ==
    IF ev = <<>> THEN h ELSE Replay(h \o Segment(ev[1]), Tail(ev))

\* The system prompt of a call with query q on the agent as constructed.
Seed(q) ==
    SystemPrompt(ToolDescriptions(registered), DictOfTools(registered), q)

\* C13: of two interleaved calls of run on one agent, each has a history
\* that is the system prompt of its own query followed by its own blocks
\* and observations and nothing else, every context it passed to generate
\* was built the same way from its own earlier steps, and the agent's tools
\* and manifest are those of construction.
C13_Isolated ==
    /\ tools = DictOfTools(registered)
    /\ tool_descriptions = ToolDescriptions(registered)
    /\ \A F \in {CurrentFrame, suspended} :
          (F.pc # "idle") =>
              /\ F.history = Replay(Seed(F.query), F.events)
              /\ \A i \in 1..Len(F.events) :
                    (F.events[i].kind = "generate") =>
                        F.events[i].input =
                            Replay(Seed(F.query), SubSeq(F.events, 1, i - 1))

C13_Witness ==
    /\ pc = "done"
    /\ suspended.pc = "observe"
    /\ suspended.query # query
    /\ suspended.events # <<>>
    /\ \E i \in 1..Len(events) : events[i].kind = "observe"
    /\ events[1].text # suspended.events[1].text

\* The lines of the manifest as a history shows them: what stands between
\* the opening sentence of the system prompt and "Use the following format:".
ManifestLines(h) ==
    LET k == Find(h, <<NL, NL, "Use the following format:">>, 5)
        m == SubSeq(h, 5, k - 1)
    IN  IF m = <<>> THEN <<>> ELSE PySplit(m, <<NL>>)

\* The histories of the calls made so far.
Histories ==
    {finished[k].history : k \in 1..Len(finished)}
    \cup (IF pc = "idle" THEN {} ELSE {history})

\* C14: in every call of run on an agent the manifest at the head of the
\* history has one line name: description for each tool of the list given
\* at construction, in the order of that list, and so is the same in every
\* call.
C14_ManifestOrder ==
    \A h \in Histories :
        ManifestLines(h) =
            [i \in 1..Len(registered) |->
                <<registered[i].name, ":", SP, registered[i].description>>]

C14_Witness ==
    /\ pc = "done"
    /\ Len(finished) = 1
    /\ finished[1].query # query
    /\ registered = <<WeatherTool, CalculatorTool>>
    /\ ManifestLines(history)[1][1] = "Weather"
    /\ ManifestLines(finished[1].history)[2][1] = "Calculator"

\* C20 (as claimed): the manifest has exactly one line for each tool that
\* can be dispatched, and the description a line shows for a name is the
\* description of the tool an action of that name invokes.
C20_ManifestIsDispatchTable ==
    \A h \in Histories :
        LET lines == ManifestLines(h)
        IN  /\ Len(lines) = Len(tools)
            /\ \A i \in 1..Len(lines) :
                  /\ InTools(tools, <<lines[i][1]>>)
                  /\ ToolAt(tools, <<lines[i][1]>>).description = lines[i][4]

\* C18 (as claimed): with MockLLM and the tools Calculator and Weather, the
\* call for the weather in Delhi runs Weather with Delhi, observes
\* 32°C, Sunny and returns It is 32°C and Sunny in Delhi., the call for
\* 2 + 2 runs Calculator with 2 + 2, observes 4 and returns The answer is 4.,
\* and each call makes two generation calls and one tool call.
C18_DemoCycle ==
    (/\ llm = MockLLM
     /\ registered = <<CalculatorTool, WeatherTool>>
     /\ max_steps = DefaultMaxSteps
     /\ pc = "done")
    => /\ GenCalls = 2
       /\ ToolCalls = 1
       /\ (query = QueryWeather) =>
             /\ events[2] = Event("tool", <<"Weather">>, <<"Delhi">>,
                                  <<"32°C, Sunny">>, FALSE)
             /\ result = <<"It is 32°C and Sunny in Delhi.">>
       /\ (query = QueryMath) =>
             /\ events[2] = Event("tool", <<"Calculator">>, <<"2 + 2">>,
                                  <<"4">>, FALSE)
             /\ result = <<"The answer is 4.">>

\* C15: a block that holds Final Answer: is the last thing the run does,
\* whether or not it also holds an action: while it is being classified
\* and after the return it is the last entry of the log (no tool call, no
\* observation, no generation call follows), the history ends with it, and
\* the run returns an answer taken from it, not the stopped result, also
\* when it was the last generation call the budget allowed.
C15_FinalAnswerWins ==
    \A i \in OfKind("generate") :
        LET b == events[i].text
        IN  (\E k \in 1..Len(b) : b[k] = MarkFinal) =>
              /\ i = Len(events)
              /\ pc \in {"classify", "done"}
              /\ history = events[i].input \o b \o <<NL>>
              /\ (pc = "done") =>
                    /\ outcome = "answer"
                    /\ result # StoppedResult
                    /\ \E k \in 1..Len(b) :
                          /\ b[k] = MarkFinal
                          /\ IsTrimOf(result, SubSeq(b, k + 1, Len(b)))

C15_Witness ==
    /\ pc = "done"
    /\ output = BlockActionAndAnswer
    /\ ReSearch(output).matched
    /\ max_steps >= 2
    /\ GenCalls = max_steps
    /\ ToolCalls = max_steps - 1
    /\ outcome = "answer"

=============================================================================
